---- MODULE Spec2Model ----
(***************************************************************************)
(* Model of forms_analysis/parse.py (process_element, parse_schema,        *)
(* add_form_metadata, parse_all_schemas) and of forms_analysis/load.py     *)
(* (add_form_metadata, process_all_files).                                 *)
(*                                                                         *)
(* Strings are sequences of tokens: a token is a piece of text without a  *)
(* separator, and the separators ".", ":", "-", " " are tokens of their    *)
(* own, so "xs:string" is <<"xs", ":", "string">> and "" is <<>>.  An      *)
(* optional value (Python's None or a value) is a sequence of length 0 or  *)
(* 1.  A reference to a node of an element tree is its address: the        *)
(* sequence of child indices leading to it from the document root.         *)
(***************************************************************************)
EXTENDS Integers, Sequences, FiniteSets, TLC

VARIABLES
    files,      \* the directory: sequence of [name, doc] in glob order
    aggregator, \* the function called: "parse_schema", "parse_all_schemas" or "process_all_files"
    process_func, \* the callable handed to process_all_files
    metadata,   \* rows of the metadata CSV
    pc,         \* position of the running function
    idx,        \* index of the file the loop is at
    parsed,     \* per file handled so far: the outcome of parse_schema
    all_dfs,    \* the tables collected by the loop
    result      \* what the function returned or raised

vars == <<files, aggregator, process_func, metadata, pc, idx, parsed, all_dfs, result>>

(***************************************************************************)
(* Strings                                                                 *)
(***************************************************************************)
None == <<>>
Some(v) == <<v>>

Str(t) == <<t>>

\* str.split(sep): the pieces between the separators, at least one piece
RECURSIVE Split(_, _)
Split(s, sep) ==
    IF \A i \in 1..Len(s) : s[i] # sep
    THEN <<s>>
    ELSE LET i == CHOOSE k \in 1..Len(s) :
                      s[k] = sep /\ \A j \in 1..(k - 1) : s[j] # sep
         IN  <<SubSeq(s, 1, i - 1)>> \o Split(SubSeq(s, i + 1, Len(s)), sep)

\* str.strip(): leading and trailing whitespace removed
RECURSIVE Strip(_)
Strip(s) ==
    IF s = <<>> THEN s
    ELSE IF Head(s) = " " THEN Strip(Tail(s))
    ELSE IF s[Len(s)] = " " THEN Strip(SubSeq(s, 1, Len(s) - 1))
    ELSE s

\* number of occurrences of token t in s
RECURSIVE Count(_, _)
Count(s, t) ==
    IF s = <<>> THEN 0
    ELSE (IF Head(s) = t THEN 1 ELSE 0) + Count(Tail(s), t)

IsPrefix(p, s) == Len(p) <= Len(s) /\ SubSeq(s, 1, Len(p)) = p

(***************************************************************************)
(* Element trees (xml.etree.ElementTree)                                   *)
(***************************************************************************)
NoAttrib == [name |-> None, type |-> None, base |-> None,
             minOccurs |-> None, maxOccurs |-> None]

Node(tag, attrib, text, kids) ==
    [tag |-> tag, attrib |-> attrib, text |-> text, kids |-> kids]

RECURSIVE NodeAt(_, _)
NodeAt(n, a) == IF a = <<>> THEN n ELSE NodeAt(n.kids[Head(a)], Tail(a))

\* Element.get(key, default)
Get(e, key, default) ==
    IF e.attrib[key] = None THEN default ELSE e.attrib[key][1]

\* addresses of the proper descendants of node n (at address a), document order
RECURSIVE DescFrom(_, _, _)
DescFrom(n, a, i) ==
    IF i > Len(n.kids) THEN <<>>
    ELSE <<a \o <<i>>>> \o DescFrom(n.kids[i], a \o <<i>>, 1) \o DescFrom(n, a, i + 1)

Descendants(root, a) == DescFrom(NodeAt(root, a), a, 1)

ChildAddrs(root, a) == [i \in 1..Len(NodeAt(root, a).kids) |-> a \o <<i>>]

\* findall("./{ns}tag")
FindAll(root, a, tag) ==
    LET Is(c) == NodeAt(root, c).tag = tag
    IN  SelectSeq(ChildAddrs(root, a), Is)

\* find("./{ns}tag"): the first match or None
Find(root, a, tag) ==
    LET m == FindAll(root, a, tag)
    IN  IF m = <<>> THEN None ELSE Some(m[1])

\* find(".//{ns}tag"): the first descendant with the tag, document order
FindDeep(root, a, tag) ==
    LET Is(c) == NodeAt(root, c).tag = tag
        m == SelectSeq(Descendants(root, a), Is)
    IN  IF m = <<>> THEN None ELSE Some(m[1])

\* find(".//{ns}element[@name]")
FindDeepNamedElement(root, a) ==
    LET Is(c) == NodeAt(root, c).tag = "element" /\ NodeAt(root, c).attrib.name # None
        m == SelectSeq(Descendants(root, a), Is)
    IN  IF m = <<>> THEN None ELSE Some(m[1])

(***************************************************************************)
(* process_element                                                         *)
(***************************************************************************)
EmptyStr == <<>>
FieldSet == Str("FieldSet")
RestrictionLit == Str("restriction")

\* the accumulator threaded through the walk: the columns list, the element
\* each row was appended for (els, parallel to columns), the order counter,
\* and whether an exception is propagating
Acc(columns, els, order_counter, raised) ==
    [columns |-> columns, els |-> els, order_counter |-> order_counter,
     raised |-> raised]

\* f"{current_path}.{element_name}" if current_path else element_name
FullPathNoPrefix(current_path, element_name) == element_name
FullPath(current_path, element_name) ==
    IF current_path # EmptyStr
    THEN current_path \o Str(".") \o element_name
    ELSE element_name

\* the explicit type reference, split on ":"
ExplicitTypeLastColon(type_value) ==
    LET parts == Split(type_value, ":")
    IN  IF Len(parts) >= 2
        THEN [type_source |-> parts[1], type |-> parts[Len(parts)]]
        ELSE [type_source |-> EmptyStr, type |-> type_value]
ExplicitType(type_value) ==
    LET parts == Split(type_value, ":")
    IN  IF Len(parts) = 2
        THEN [type_source |-> parts[1], type |-> parts[2]]
        ELSE [type_source |-> EmptyStr, type |-> type_value]

\* the base of a simpleType restriction, split on ":"
RestrictionTypeReportsBase(base_type) ==
    LET parts == Split(base_type, ":")
    IN  IF Len(parts) = 2
        THEN [type_source |-> parts[1], type |-> parts[2]]
        ELSE [type_source |-> EmptyStr, type |-> RestrictionLit]
RestrictionType(base_type) ==
    LET parts == Split(base_type, ":")
    IN  IF Len(parts) = 2
        THEN [type_source |-> parts[1], type |-> RestrictionLit]
        ELSE [type_source |-> EmptyStr, type |-> RestrictionLit]

\* "Handle type information": the pair (type_source, type) before the
\* container check
ResolveType(root, element) ==
    LET e == NodeAt(root, element)
        type_value == Get(e, "type", EmptyStr)
        simple_type == Find(root, element, "simpleType")
        restriction == Find(root, simple_type[1], "restriction")
        base_type == Get(NodeAt(root, restriction[1]), "base", EmptyStr)
        empty == [type_source |-> EmptyStr, type |-> EmptyStr]
    IN  IF type_value # EmptyStr THEN ExplicitType(type_value)
        ELSE IF simple_type = None THEN empty
        ELSE IF restriction = None THEN empty
        ELSE IF base_type # EmptyStr THEN RestrictionType(base_type)
        ELSE empty

\* "Get description from annotation if available"; documentation.text.strip()
\* raises AttributeError when the documentation element has no text
Description(root, element) ==
    LET annotation == FindDeep(root, element, "annotation")
        documentation == FindDeep(root, annotation[1], "documentation")
        text == NodeAt(root, documentation[1]).text
    IN  IF annotation = None THEN [raised |-> FALSE, text |-> EmptyStr]
        ELSE IF documentation = None THEN [raised |-> FALSE, text |-> EmptyStr]
        ELSE IF text = None THEN [raised |-> TRUE, text |-> EmptyStr]
        ELSE [raised |-> FALSE, text |-> Strip(text[1])]

\* the element children of the sequence of the element's complexType
SequenceChildren(root, element) ==
    LET complex_type == Find(root, element, "complexType")
        sequence == Find(root, complex_type[1], "sequence")
    IN  IF complex_type = None THEN <<>>
        ELSE IF sequence = None THEN <<>>
        ELSE FindAll(root, sequence[1], "element")

\* column_info["type"] = "FieldSet" when the sequence has element children
ContainerTypeUnlessTyped(resolved_type, children) ==
    IF children # <<>> /\ resolved_type = EmptyStr THEN FieldSet ELSE resolved_type
ContainerTypeAlways(resolved_type, children) == FieldSet
ContainerType(resolved_type, children) ==
    IF children # <<>> THEN FieldSet ELSE resolved_type

\* order_counter += 1
IncrementOrderTwice(order_counter) == order_counter + 2
IncrementOrder(order_counter) == order_counter + 1

RECURSIVE process_element(_, _, _, _, _)
RECURSIVE process_children(_, _, _, _, _, _)

\* "Skip elements without a name attribute": return order_counter
SkipUnnamedDescends(root, element, acc, current_path, depth) ==
    process_children(root, SequenceChildren(root, element), 1, acc,
                     current_path, depth)
SkipUnnamed(root, element, acc, current_path, depth) == acc

process_element(root, element, acc, current_path, depth) ==
    LET e == NodeAt(root, element) IN
    IF acc.raised THEN acc
    ELSE IF e.attrib.name = None
    THEN SkipUnnamed(root, element, acc, current_path, depth)
    ELSE
    LET element_name == e.attrib.name[1]
        full_path == FullPath(current_path, element_name)
        resolved == ResolveType(root, element)
        description == Description(root, element)
        children == SequenceChildren(root, element)
        column_info ==
            [name |-> element_name,
             path |-> full_path,
             type_source |-> resolved.type_source,
             type |-> ContainerType(resolved.type, children),
             required |-> Get(e, "minOccurs", Str("1")) # Str("0"),
             min_occurrences |-> Get(e, "minOccurs", Str("1")),
             max_occurrences |-> Get(e, "maxOccurs", Str("1")),
             description |-> description.text,
             order |-> acc.order_counter,
             depth |-> depth]
    IN  IF description.raised
        THEN Acc(acc.columns, acc.els, IncrementOrder(acc.order_counter), TRUE)
        ELSE process_children(
                 root, children, 1,
                 Acc(Append(acc.columns, column_info), Append(acc.els, element),
                     IncrementOrder(acc.order_counter), FALSE),
                 full_path, depth + 1)

\* for child in sequence.findall(...): order_counter = process_element(...)
process_children(root, children, i, acc, current_path, depth) ==
    IF i > Len(children) \/ acc.raised THEN acc
    ELSE process_children(
             root, children, i + 1,
             process_element(root, children[i], acc, current_path, depth),
             current_path, depth)

(***************************************************************************)
(* parse_schema                                                            *)
(***************************************************************************)
\* df.sort_values("order"): insertion of row r after the rows not above it
RECURSIVE InsertByOrder(_, _)
InsertByOrder(rows, r) ==
    IF rows = <<>> THEN <<r>>
    ELSE IF r.order < Head(rows).order THEN <<r>> \o rows
    ELSE <<Head(rows)>> \o InsertByOrder(Tail(rows), r)

RECURSIVE SortByOrder(_)
SortByOrder(rows) ==
    IF rows = <<>> THEN <<>>
    ELSE InsertByOrder(SortByOrder(SubSeq(rows, 1, Len(rows) - 1)),
                       rows[Len(rows)])

\* the outcome of parse_schema on one document: raised, or the table df; with
\* the list columns as process_element left it and the elements behind it
parse_schema(root) ==
    LET root_element == FindDeepNamedElement(root, <<>>)
        walk == process_element(root, root_element[1],
                                Acc(<<>>, <<>>, 0, FALSE), EmptyStr, 0)
    IN  IF root_element = None
        THEN [raised |-> TRUE, error |-> "No root element found in schema",
              root_element |-> None, columns |-> <<>>, els |-> <<>>, df |-> <<>>]
        ELSE IF walk.raised
        THEN [raised |-> TRUE, error |-> "AttributeError",
              root_element |-> root_element, columns |-> <<>>, els |-> <<>>,
              df |-> <<>>]
        ELSE [raised |-> FALSE, error |-> "",
              root_element |-> root_element, columns |-> walk.columns,
              els |-> walk.els, df |-> SortByOrder(walk.columns)]

(***************************************************************************)
(* Input documents                                                         *)
(***************************************************************************)
MaxElems == 3    \* element nodes of a document of the structure family
MaxRefLen == 3   \* tokens of a type or base reference
MaxParts == 2    \* children of the element of the documentation family

Elem(name, type, kids) ==
    Node("element", [NoAttrib EXCEPT !.name = name, !.type = type], None, kids)
Occurs(min, max) ==
    Node("element", [NoAttrib EXCEPT !.name = Some(Str("a")), !.minOccurs = min,
                                     !.maxOccurs = max], None, <<>>)
Schema(kids) == Node("schema", NoAttrib, None, kids)
ComplexType(kids) == Node("complexType", NoAttrib, None, kids)
SequenceOf(kids) == Node("sequence", NoAttrib, None, kids)
SimpleType(kids) == Node("simpleType", NoAttrib, None, kids)
Restriction(base) == Node("restriction", [NoAttrib EXCEPT !.base = base], None, <<>>)
Annotation(kids) == Node("annotation", NoAttrib, None, kids)
Documentation(text) == Node("documentation", NoAttrib, text, <<>>)

\* Structure family: every ordered forest of at most MaxElems elements.  An
\* element has no name, an empty name, a plain name or a dotted name; a
\* named element holds its child elements in complexType/sequence, an
\* unnamed one either there or directly.
NameOpts == {None, Some(EmptyStr), Some(Str("a")), Some(Str("b")),
             Some(<<"a", ".", "b">>)}
Attach(how, forest) ==
    IF how = "sequence" THEN <<ComplexType(<<SequenceOf(forest)>>)>> ELSE forest
AttachOpts(name) == IF name = None THEN {"sequence", "direct"} ELSE {"sequence"}

RECURSIVE StructTrees(_)
RECURSIVE StructForests(_)
StructTrees(n) ==
    IF n = 0 THEN {}
    ELSE UNION {{Elem(nm, None, Attach(how, f)) :
                    how \in AttachOpts(nm), f \in StructForests(n - 1)} :
                    nm \in NameOpts}
StructForests(n) ==
    IF n = 0 THEN {<<>>}
    ELSE UNION {{<<t>> \o f : t \in StructTrees(k), f \in StructForests(n - k)} :
                    k \in 1..n}

StructDocs == {Schema(f) : f \in UNION {StructForests(n) : n \in 0..MaxElems}}

\* Type family: one named element with every type reference over the tokens
\* "t" and ":", every simpleType/restriction arrangement and every container
\* arrangement.
Refs == UNION {[1..k -> {"t", ":"}] : k \in 0..MaxRefLen}
RefOpts == {None} \cup {Some(r) : r \in Refs}
SimpleParts ==
    {<<>>, <<SimpleType(<<>>)>>,
     <<SimpleType(<<>>), SimpleType(<<Restriction(Some(<<"t", ":", "t">>))>>)>>}
    \cup {<<SimpleType(<<Restriction(b)>>)>> : b \in RefOpts}
ContainerParts ==
    {<<>>, <<ComplexType(<<>>)>>, <<ComplexType(<<SequenceOf(<<>>)>>)>>,
     <<ComplexType(<<SequenceOf(<<Elem(Some(Str("b")), None, <<>>)>>)>>)>>,
     <<ComplexType(<<SequenceOf(<<Elem(None, None, <<>>)>>)>>)>>,
     <<ComplexType(<<SequenceOf(<<Elem(Some(Str("b")), Some(<<"t", ":", "t">>), <<>>),
                                  Elem(None, None, <<>>),
                                  Elem(Some(Str("c")), None, <<>>)>>)>>)>>}
TypedDocs ==
    {Schema(<<Elem(Some(Str("a")), ty, sp \o cp)>>) :
         ty \in RefOpts, sp \in SimpleParts, cp \in ContainerParts}

OccursDocs ==
    {Schema(<<Occurs(mn, mx)>>) :
         mn \in {None, Some(Str("0")), Some(Str("1")), Some(Str("2"))},
         mx \in {None, Some(Str("1")), Some(Str("unbounded"))}}

\* Documentation family: one named element whose children are any sequence
\* of at most MaxParts of these parts.
Texts == {None, Some(Str("d")), Some(<<" ", "d", " ">>), Some(Str(" "))}
DocParts ==
    {Annotation(<<>>), Documentation(Some(Str("x"))),
     ComplexType(<<SequenceOf(<<Elem(Some(Str("b")), None,
         <<Annotation(<<Documentation(Some(Str("c")))>>)>>)>>)>>),
     ComplexType(<<SequenceOf(<<Elem(None, None,
         <<Annotation(<<Documentation(Some(Str("u")))>>)>>)>>)>>)}
    \cup {Annotation(<<Documentation(t)>>) : t \in Texts}
DescribedDocs ==
    {Schema(<<Elem(Some(Str("a")), None, parts)>>) :
         parts \in UNION {[1..k -> DocParts] : k \in 0..MaxParts}}

(***************************************************************************)
(* Specifications of one call of parse_schema: Spec on the documents of    *)
(* the structure family, TypedSpec on those of the type and documentation  *)
(* families                                                                *)
(***************************************************************************)
NoResult == [status |-> "none", table |-> <<>>]

ParseInit(docs) ==
    /\ files \in {<<[name |-> <<"A", ".xml">>, doc |-> d]>> : d \in docs}
    /\ aggregator = "parse_schema"
    /\ process_func = "none"
    /\ metadata = <<>>
    /\ pc = "call"
    /\ idx = 1
    /\ parsed = <<>>
    /\ all_dfs = <<>>
    /\ result = NoResult

Init == ParseInit(StructDocs \cup OccursDocs)

\* Marker family: the named element, or its one child, has a type reference
\* that holds the name "FieldSet", with every container arrangement.
MarkerRefs ==
    {Some(<<"FieldSet">>), Some(<<"t", ":", "FieldSet">>),
     Some(<<"FieldSet", ":", "t">>)}
MarkerDocs ==
    {Schema(<<Elem(Some(Str("a")), ty, cp)>>) :
         ty \in MarkerRefs, cp \in ContainerParts}
    \cup {Schema(<<Elem(Some(Str("a")), None,
                      <<ComplexType(<<SequenceOf(<<Elem(Some(Str("b")), ty, <<>>)>>)>>)>>)>>) :
              ty \in MarkerRefs}

TypedInit == ParseInit(TypedDocs \cup DescribedDocs \cup MarkerDocs)

ParseSchemaReturns ==
    /\ aggregator = "parse_schema" /\ pc = "call"
    /\ LET out == parse_schema(files[idx].doc)
       IN  /\ ~out.raised
           /\ parsed' = Append(parsed, out)
           /\ result' = [status |-> "returned", table |-> out.df]
    /\ pc' = "done"
    /\ idx' = idx + 1
    /\ UNCHANGED <<files, aggregator, process_func, metadata, all_dfs>>

ParseSchemaRaises ==
    /\ aggregator = "parse_schema" /\ pc = "call"
    /\ LET out == parse_schema(files[idx].doc)
       IN  /\ out.raised
           /\ parsed' = Append(parsed, out)
           /\ result' = [status |-> out.error, table |-> <<>>]
    /\ pc' = "done"
    /\ idx' = idx + 1
    /\ UNCHANGED <<files, aggregator, process_func, metadata, all_dfs>>

Next == ParseSchemaReturns \/ ParseSchemaRaises

Spec == Init /\ [][Next]_vars

TypedSpec == TypedInit /\ [][Next]_vars

(***************************************************************************)
(* add_form_metadata, parse_all_schemas (parse.py) and process_all_files   *)
(* (load.py)                                                               *)
(***************************************************************************)
MaxMeta == 2     \* rows of the metadata CSV

base_url == "https://apply07.grants.gov/apply/forms/schemas/"

\* str.replace(old, ""): every occurrence of the token removed
Remove(s, old) == LET Keep(t) == t # old IN SelectSeq(s, Keep)

FormLink(file_name) == Str(base_url) \o Remove(file_name, ".xml")

\* df["source_file"], df["form_name_xml"], df["form_link"] set on every row
Provenance(df, file_name) ==
    [k \in 1..Len(df) |->
        df[k] @@ [source_file |-> file_name,
                  form_name_xml |-> Split(file_name, "-")[1],
                  form_link |-> FormLink(file_name)]]

\* pd.concat(dfs, ignore_index=True)
RECURSIVE Concat(_)
Concat(dfs) == IF dfs = <<>> THEN <<>> ELSE Head(dfs) \o Concat(Tail(dfs))

\* drop_duplicates(subset=[key], keep="last"), which the code does not ask for
DropDuplicatesKeepLast(rows, key) ==
    LET Last(k) == \A j \in (k + 1)..Len(rows) : rows[j][key] # rows[k][key]
        RECURSIVE Keep(_)
        Keep(k) == IF k > Len(rows) THEN <<>>
                   ELSE (IF Last(k) THEN <<rows[k]>> ELSE <<>>) \o Keep(k + 1)
    IN  Keep(1)

\* drop_duplicates(subset=[key]): the first row of every key value is kept
DropDuplicates(rows, key) ==
    LET First(k) == \A j \in 1..(k - 1) : rows[j][key] # rows[k][key]
        RECURSIVE Keep(_)
        Keep(k) == IF k > Len(rows) THEN <<>>
                   ELSE (IF First(k) THEN <<rows[k]>> ELSE <<>>) \o Keep(k + 1)
    IN  Keep(1)

\* pd.merge(df, right, how="left") on left_key = right_key: the left rows in
\* order, each once per matching right row, or once with NaN (None) in the
\* right columns when nothing matches; Join(l, r) builds the merged row
RECURSIVE MergeLeftFrom(_, _, _, _, _, _)
MergeLeftFrom(df, right, left_key, right_key, nan, k) ==
    IF k > Len(df) THEN <<>>
    ELSE LET Matches(m) == m[right_key] = Some(df[k][left_key])
             ms == SelectSeq(right, Matches)
         IN  (IF ms = <<>> THEN <<df[k] @@ nan>>
              ELSE [n \in 1..Len(ms) |-> df[k] @@ ms[n]])
             \o MergeLeftFrom(df, right, left_key, right_key, nan, k + 1)

\* parse.py add_form_metadata: the CSV columns renamed, duplicates of
\* form_link dropped, left merge on form_link
RenameParse(m) ==
    [form_link |-> Some(m.Form_Schema), form_family |-> Some(m.Form_Family),
     form_name |-> Some(m.Form_Name), form_omb_number |-> Some(m.OMB_Number),
     form_agency_owner |-> Some(m.Agency_Owner)]
NaNParse ==
    [form_family |-> None, form_name |-> None, form_omb_number |-> None,
     form_agency_owner |-> None]
add_form_metadata(df, metadata_csv) ==
    LET metadata_df == [n \in 1..Len(metadata_csv) |-> RenameParse(metadata_csv[n])]
        deduped == DropDuplicates(metadata_df, "form_link")
        right == [n \in 1..Len(deduped) |->
                     [f \in DOMAIN NaNParse |-> deduped[n][f]]
                         @@ [link_key |-> deduped[n].form_link]]
        merged == MergeLeftFrom(df, right, "form_link", "link_key",
                                NaNParse @@ [link_key |-> None], 1)
    IN  [k \in 1..Len(merged) |->
            [f \in (DOMAIN merged[k]) \ {"link_key"} |-> merged[k][f]]]

\* load.py add_form_metadata: duplicates of link_column dropped, left merge
\* of form_link on link_column; the right key column stays in the result
RenameLoad(m) ==
    [form_schema_url |-> Some(m.Form_Schema), form_dat_url |-> Some(m.Form_DAT),
     form_family |-> Some(m.Form_Family), form_name |-> Some(m.Form_Name),
     form_omb_number |-> Some(m.OMB_Number),
     form_agency_owner |-> Some(m.Agency_Owner)]
NaNLoad ==
    [form_schema_url |-> None, form_dat_url |-> None, form_family |-> None,
     form_name |-> None, form_omb_number |-> None, form_agency_owner |-> None]
load_add_form_metadata(df, metadata_csv, link_column) ==
    LET metadata_df == [n \in 1..Len(metadata_csv) |-> RenameLoad(metadata_csv[n])]
        deduped == DropDuplicates(metadata_df, link_column)
    IN  MergeLeftFrom(df, deduped, "form_link", link_column, NaNLoad, 1)

\* the order of Python strings, on the form names of the metadata
Alphabet == <<"X", "Y">>
Rank(t) == CHOOSE n \in 1..Len(Alphabet) : Alphabet[n] = t
RECURSIVE StrLess(_, _)
StrLess(s, t) ==
    IF t = <<>> THEN FALSE
    ELSE IF s = <<>> THEN TRUE
    ELSE IF Head(s) # Head(t) THEN Rank(Head(s)) < Rank(Head(t))
    ELSE StrLess(Tail(s), Tail(t))

\* a sort by the form name derived from the file name, then by order, which
\* the code does not do
DerivedFormNameOrderLess(r, s) ==
    \/ r.form_name_xml # s.form_name_xml /\ r.form_name_xml = Str("A")
    \/ r.form_name_xml = s.form_name_xml /\ r.order < s.order

\* sort_values(["form_name", "order"]): by form_name, NaN last, then by
\* order; rows equal in both keep their order
FormNameOrderLess(r, s) ==
    \/ r.form_name # None /\ s.form_name = None
    \/ r.form_name # None /\ s.form_name # None
           /\ StrLess(r.form_name[1], s.form_name[1])
    \/ r.form_name = s.form_name /\ r.order < s.order

RECURSIVE InsertByFormNameOrder(_, _)
InsertByFormNameOrder(rows, r) ==
    IF rows = <<>> THEN <<r>>
    ELSE IF FormNameOrderLess(r, Head(rows)) THEN <<r>> \o rows
    ELSE <<Head(rows)>> \o InsertByFormNameOrder(Tail(rows), r)

RECURSIVE SortByFormNameOrder(_)
SortByFormNameOrder(rows) ==
    IF rows = <<>> THEN <<>>
    ELSE InsertByFormNameOrder(
             SortByFormNameOrder(SubSeq(rows, 1, Len(rows) - 1)),
             rows[Len(rows)])

\* The inputs of a batch run.  The directory holds any files of FileNames, in
\* any listing order, each with a document of DocPool; the metadata CSV holds
\* at most MaxMeta rows of MetaRows.
FileNames == {<<"A", "-", "V1", ".xml">>, <<"A", "-", "V2", ".xml">>,
              <<"B", ".xml">>}
DocPool ==
    {Schema(<<Elem(Some(Str("a")), None,
                 <<ComplexType(<<SequenceOf(<<Elem(Some(Str("b")), None, <<>>)>>)>>)>>)>>),
     Schema(<<Elem(Some(Str("r")), Some(<<"xs", ":", "string">>), <<>>)>>),
     Schema(<<Elem(None, None, <<>>)>>),
     Schema(<<Elem(Some(Str("a")), None,
                 <<Annotation(<<Documentation(None)>>)>>)>>)}
Directories ==
    {f \in UNION {[1..n -> [name : FileNames, doc : DocPool]] :
                      n \in 0..Cardinality(FileNames)} :
         \A i, j \in 1..Len(f) : i # j => f[i].name # f[j].name}
MetaRows ==
    [Form_Schema : {FormLink(<<"A", "-", "V1", ".xml">>),
                    FormLink(<<"A", "-", "V2", ".xml">>)},
     Form_DAT : {Str("dat")}, Form_Family : {Str("F")},
     Form_Name : {Str("X"), Str("Y")},
     OMB_Number : {Str("4040")}, Agency_Owner : {Str("G")}]
MetaTables == UNION {[1..n -> MetaRows] : n \in 0..MaxMeta}

BatchInit ==
    /\ files \in Directories
    /\ \/ aggregator = "parse_all_schemas" /\ process_func = "none"
       \/ aggregator = "process_all_files" /\ process_func \in {"raising", "catching"}
    /\ metadata = <<>>
    /\ pc = "glob"
    /\ idx = 1
    /\ parsed = <<>>
    /\ all_dfs = <<>>
    /\ result = NoResult

\* parse_all_schemas: if not schema_files: raise ValueError
ParseAllNoFiles ==
    /\ aggregator = "parse_all_schemas" /\ pc = "glob"
    /\ files = <<>>
    /\ result' = [status |-> "ValueError: No XML files found", table |-> <<>>]
    /\ pc' = "done"
    /\ UNCHANGED <<files, aggregator, process_func, metadata, idx, parsed, all_dfs>>

ParseAllEnterLoop ==
    /\ aggregator = "parse_all_schemas" /\ pc = "glob"
    /\ files # <<>>
    /\ pc' = "loop"
    /\ UNCHANGED <<files, aggregator, process_func, metadata, idx, parsed, all_dfs, result>>

\* the try block: parse_schema, the provenance columns, all_dfs.append(df)
ParseAllFileParsed ==
    /\ aggregator = "parse_all_schemas" /\ pc = "loop"
    /\ idx <= Len(files)
    /\ LET out == parse_schema(files[idx].doc)
       IN  /\ ~out.raised
           /\ parsed' = Append(parsed, out)
           /\ all_dfs' = Append(all_dfs, Provenance(out.df, files[idx].name))
    /\ idx' = idx + 1
    /\ UNCHANGED <<files, aggregator, process_func, metadata, pc, result>>

\* except Exception as e: print(...)
ParseAllFileSkipped ==
    /\ aggregator = "parse_all_schemas" /\ pc = "loop"
    /\ idx <= Len(files)
    /\ parse_schema(files[idx].doc).raised
    /\ parsed' = Append(parsed, parse_schema(files[idx].doc))
    /\ idx' = idx + 1
    /\ UNCHANGED <<files, aggregator, process_func, metadata, pc, all_dfs, result>>

\* if not all_dfs: raise ValueError
ParseAllNoneParsedReturnsEmpty ==
    /\ aggregator = "parse_all_schemas" /\ pc = "loop"
    /\ idx > Len(files)
    /\ all_dfs = <<>>
    /\ result' = [status |-> "returned", table |-> <<>>]
    /\ pc' = "done"
    /\ UNCHANGED <<files, aggregator, process_func, metadata, idx, parsed, all_dfs>>
ParseAllNoneParsed ==
    /\ aggregator = "parse_all_schemas" /\ pc = "loop"
    /\ idx > Len(files)
    /\ all_dfs = <<>>
    /\ result' = [status |-> "ValueError: No schemas were successfully parsed",
                  table |-> <<>>]
    /\ pc' = "done"
    /\ UNCHANGED <<files, aggregator, process_func, metadata, idx, parsed, all_dfs>>

\* concat, add_form_metadata (which reads the metadata CSV), sort, return
ParseAllCombine ==
    /\ aggregator = "parse_all_schemas" /\ pc = "loop"
    /\ idx > Len(files)
    /\ all_dfs # <<>>
    /\ \E csv \in MetaTables :
           /\ metadata' = csv
           /\ result' = [status |-> "returned",
                         table |-> SortByFormNameOrder(
                                       add_form_metadata(Concat(all_dfs), csv))]
    /\ pc' = "done"
    /\ UNCHANGED <<files, aggregator, process_func, idx, parsed, all_dfs>>

\* process_all_files: if not files: logging.warning(...); return
ProcessAllNoFiles ==
    /\ aggregator = "process_all_files" /\ pc = "glob"
    /\ files = <<>>
    /\ result' = [status |-> "warning: no files found", table |-> <<>>]
    /\ pc' = "done"
    /\ UNCHANGED <<files, aggregator, process_func, metadata, idx, parsed, all_dfs>>

ProcessAllEnterLoop ==
    /\ aggregator = "process_all_files" /\ pc = "glob"
    /\ files # <<>>
    /\ pc' = "loop"
    /\ UNCHANGED <<files, aggregator, process_func, metadata, idx, parsed, all_dfs, result>>

\* df = process_func(str(file_path)); if not df.empty: dfs.append(df)
ProcessAllFileProcessed ==
    /\ aggregator = "process_all_files" /\ pc = "loop"
    /\ idx <= Len(files)
    /\ LET out == parse_schema(files[idx].doc)
       IN  /\ ~out.raised \/ process_func = "catching"
           /\ parsed' = Append(parsed, out)
           /\ all_dfs' = IF out.raised \/ out.df = <<>> THEN all_dfs
                         ELSE Append(all_dfs, Provenance(out.df, files[idx].name))
    /\ idx' = idx + 1
    /\ UNCHANGED <<files, aggregator, process_func, metadata, pc, result>>

\* an exception of process_func leaves process_all_files
ProcessAllFileRaises ==
    /\ aggregator = "process_all_files" /\ pc = "loop"
    /\ idx <= Len(files)
    /\ process_func = "raising"
    /\ parse_schema(files[idx].doc).raised
    /\ parsed' = Append(parsed, parse_schema(files[idx].doc))
    /\ result' = [status |-> "raised: " \o parse_schema(files[idx].doc).error,
                  table |-> <<>>]
    /\ pc' = "done"
    /\ UNCHANGED <<files, aggregator, process_func, metadata, idx, all_dfs>>

\* if not dfs: logging.warning(...); return
ProcessAllNoneProcessed ==
    /\ aggregator = "process_all_files" /\ pc = "loop"
    /\ idx > Len(files)
    /\ all_dfs = <<>>
    /\ result' = [status |-> "warning: no files processed", table |-> <<>>]
    /\ pc' = "done"
    /\ UNCHANGED <<files, aggregator, process_func, metadata, idx, parsed, all_dfs>>

\* concat, add_form_metadata, to_csv
ProcessAllCombine ==
    /\ aggregator = "process_all_files" /\ pc = "loop"
    /\ idx > Len(files)
    /\ all_dfs # <<>>
    /\ \E csv \in MetaTables :
           /\ metadata' = csv
           /\ result' = [status |-> "saved",
                         table |-> load_add_form_metadata(
                                       Concat(all_dfs), csv, "form_schema_url")]
    /\ pc' = "done"
    /\ UNCHANGED <<files, aggregator, process_func, idx, parsed, all_dfs>>

BatchNext ==
    \/ ParseAllNoFiles \/ ParseAllEnterLoop \/ ParseAllFileParsed
    \/ ParseAllFileSkipped \/ ParseAllNoneParsed \/ ParseAllCombine
    \/ ProcessAllNoFiles \/ ProcessAllEnterLoop \/ ProcessAllFileProcessed
    \/ ProcessAllFileRaises \/ ProcessAllNoneProcessed \/ ProcessAllCombine

BatchSpec == BatchInit /\ [][BatchNext]_vars

(***************************************************************************)
(* Properties of the table of one document                                 *)
(***************************************************************************)
ProperPrefix(a, b) == Len(a) < Len(b) /\ IsPrefix(a, b)

\* the documents parsed so far without an exception
Parsed == {i \in 1..Len(parsed) : ~parsed[i].raised}

Rows(i) == 1..Len(parsed[i].columns)

\* the rows appended for ancestors of the element of row k
AncestorRows(i, k) ==
    {j \in Rows(i) : ProperPrefix(parsed[i].els[j], parsed[i].els[k])}

\* the element of row j holds the element of row k in its sequence
IsParentRow(i, j, k) ==
    parsed[i].els[k] \in
        {SequenceChildren(files[i].doc, parsed[i].els[j])[c] :
             c \in 1..Len(SequenceChildren(files[i].doc, parsed[i].els[j]))}

\* a before b in document order (pre-order)
RECURSIVE DocBefore(_, _)
DocBefore(a, b) ==
    IF a = <<>> THEN b # <<>>
    ELSE IF b = <<>> THEN FALSE
    ELSE IF Head(a) # Head(b) THEN Head(a) < Head(b)
    ELSE DocBefore(Tail(a), Tail(b))

UnnamedElements(root) ==
    {a \in {Descendants(root, <<>>)[n] : n \in 1..Len(Descendants(root, <<>>))} :
         NodeAt(root, a).tag = "element" /\ NodeAt(root, a).attrib.name = None}

PlainName(name) == name # EmptyStr /\ Count(name, ".") = 0

C2_UnnamedSubtreeSilent ==
    \A i \in Parsed : \A u \in UnnamedElements(files[i].doc) : \A k \in Rows(i) :
        ~IsPrefix(u, parsed[i].els[k])

\* C2 amended: no descriptor comes from an unnamed element node or from one of
\* its descendants, unless the unnamed node is an ancestor of the element the
\* root search selects.
C2_UnnamedSubtreeSilentBelowRoot ==
    \A i \in Parsed : \A u \in UnnamedElements(files[i].doc) :
        ~ProperPrefix(u, parsed[i].root_element[1])
            => \A k \in Rows(i) : ~IsPrefix(u, parsed[i].els[k])

\* an unnamed element with a named element in its own sequence was met by the
\* walk, as a child of an emitted container
C2_Witness ==
    \E i \in Parsed : \E u \in UnnamedElements(files[i].doc) : \E j \in Rows(i) :
        /\ u \in {SequenceChildren(files[i].doc, parsed[i].els[j])[c] :
                      c \in 1..Len(SequenceChildren(files[i].doc, parsed[i].els[j]))}
        /\ \E c \in 1..Len(SequenceChildren(files[i].doc, u)) :
               NodeAt(files[i].doc, SequenceChildren(files[i].doc, u)[c]).attrib.name # None

\* C3 as stated: depth = number of "." in path = number of ancestor
\* descriptors, for every descriptor.
C3_DepthIsDotCount ==
    \A i \in Parsed : \A k \in Rows(i) :
        /\ parsed[i].columns[k].depth = Count(parsed[i].columns[k].path, ".")
        /\ parsed[i].columns[k].depth = Cardinality(AncestorRows(i, k))

\* C3 amended: depth = number of ancestor descriptors for every descriptor;
\* depth = number of "." in path for every descriptor whose name and whose
\* ancestors' names contain no "." and whose root field has a non-empty name.
C3_DepthIsDotCountPlainNames ==
    \A i \in Parsed : \A k \in Rows(i) :
        /\ parsed[i].columns[k].depth = Cardinality(AncestorRows(i, k))
        /\ (/\ \A j \in AncestorRows(i, k) \cup {k} :
                   Count(parsed[i].columns[j].name, ".") = 0
            /\ parsed[i].columns[1].name # EmptyStr)
           => parsed[i].columns[k].depth = Count(parsed[i].columns[k].path, ".")

\* a descriptor two levels below the root field, all names plain
C3_Witness ==
    \E i \in Parsed : \E k \in Rows(i) :
        /\ parsed[i].columns[k].depth = 2
        /\ \A j \in AncestorRows(i, k) \cup {k} : PlainName(parsed[i].columns[j].name)
        /\ Len(parsed[i].columns[k].path) = 5

\* C4 as stated: no two descriptors of a document have the same path.
C4_PathUnique ==
    \A i \in Parsed : \A k, l \in Rows(i) :
        k # l => parsed[i].columns[k].path # parsed[i].columns[l].path

\* C4 amended: no two descriptors of a document have the same path, provided
\* every emitted name is non-empty and without ".", and no two elements
\* emitted under the same parent have the same name.
C4_PathUniquePlainDistinct ==
    \A i \in Parsed :
        (/\ \A k \in Rows(i) : PlainName(parsed[i].columns[k].name)
         /\ \A j, k, l \in Rows(i) :
                (k # l /\ IsParentRow(i, j, k) /\ IsParentRow(i, j, l))
                    => parsed[i].columns[k].name # parsed[i].columns[l].name)
        => \A k, l \in Rows(i) :
               k # l => parsed[i].columns[k].path # parsed[i].columns[l].path

\* two siblings with plain, different names under a plain-named parent
C4_Witness ==
    \E i \in Parsed :
        /\ \A k \in Rows(i) : PlainName(parsed[i].columns[k].name)
        /\ \E j, k, l \in Rows(i) :
               /\ k # l /\ IsParentRow(i, j, k) /\ IsParentRow(i, j, l)
               /\ parsed[i].columns[k].name # parsed[i].columns[l].name

(***************************************************************************)
(* Properties of type resolution, containers and descriptions              *)
(***************************************************************************)
ElementOf(i, k) == NodeAt(files[i].doc, parsed[i].els[k])

IsContainer(i, k) == SequenceChildren(files[i].doc, parsed[i].els[k]) # <<>>

\* the restriction children of the simpleType children of the element of row k
NestedRestrictions(i, k) ==
    LET root == files[i].doc
        sts == FindAll(root, parsed[i].els[k], "simpleType")
    IN  UNION {{FindAll(root, sts[n], "restriction")[m] :
                    m \in 1..Len(FindAll(root, sts[n], "restriction"))} :
               n \in 1..Len(sts)}

\* C5: a non-container descriptor whose element has a non-empty type
\* reference v: if v holds exactly one ":", then v = type_source:type, else
\* type = v and type_source = "".
C5_ExplicitTypeSplit ==
    \A i \in Parsed : \A k \in Rows(i) :
        LET v == Get(ElementOf(i, k), "type", EmptyStr)
            row == parsed[i].columns[k]
        IN  (~IsContainer(i, k) /\ v # EmptyStr) =>
                IF Count(v, ":") = 1
                THEN /\ row.type_source \o Str(":") \o row.type = v
                     /\ Count(row.type_source, ":") = 0
                     /\ Count(row.type, ":") = 0
                ELSE row.type = v /\ row.type_source = EmptyStr

\* a non-container element whose type reference holds two ":" was parsed
C5_Witness ==
    \E i \in Parsed : \E k \in Rows(i) :
        /\ ~IsContainer(i, k)
        /\ Count(Get(ElementOf(i, k), "type", EmptyStr), ":") = 2
        /\ parsed[i].columns[k].type = <<"t", ":", ":">>
        /\ parsed[i].columns[k].type_source = EmptyStr

\* C6 as stated: a non-container descriptor whose element has no type
\* reference and has a nested simpleType with a restriction has type
\* "restriction"; type_source is the base's prefix when the base holds
\* exactly one ":", and "" when the base holds none.
C6_RestrictionLiteral ==
    \A i \in Parsed : \A k \in Rows(i) :
        LET row == parsed[i].columns[k]
        IN  (/\ ~IsContainer(i, k)
             /\ Get(ElementOf(i, k), "type", EmptyStr) = EmptyStr)
            => \A r \in NestedRestrictions(i, k) :
                   LET base == Get(NodeAt(files[i].doc, r), "base", EmptyStr)
                   IN  /\ row.type = RestrictionLit
                       /\ Count(base, ":") = 1
                              => IsPrefix(row.type_source \o Str(":"), base)
                       /\ Count(base, ":") = 0 => row.type_source = EmptyStr

\* C6 amended: the same, for an element whose first simpleType child has a
\* restriction (the first one) with a non-empty base reference; type_source
\* is "" for every base that does not hold exactly one ":".
C6_RestrictionLiteralWithBase ==
    \A i \in Parsed : \A k \in Rows(i) :
        LET row == parsed[i].columns[k]
            root == files[i].doc
            st == Find(root, parsed[i].els[k], "simpleType")
            r == Find(root, st[1], "restriction")
            base == Get(NodeAt(root, r[1]), "base", EmptyStr)
        IN  (/\ ~IsContainer(i, k)
             /\ Get(ElementOf(i, k), "type", EmptyStr) = EmptyStr
             /\ st # None /\ r # None /\ base # EmptyStr)
            => /\ row.type = RestrictionLit
               /\ IF Count(base, ":") = 1
                  THEN /\ IsPrefix(row.type_source \o Str(":"), base)
                       /\ Count(row.type_source, ":") = 0
                  ELSE row.type_source = EmptyStr

\* an element without type reference whose restriction has the base "t:t"
C6_Witness ==
    \E i \in Parsed : \E k \in Rows(i) : \E r \in NestedRestrictions(i, k) :
        /\ ~IsContainer(i, k)
        /\ Get(ElementOf(i, k), "type", EmptyStr) = EmptyStr
        /\ Get(NodeAt(files[i].doc, r), "base", EmptyStr) = <<"t", ":", "t">>
        /\ parsed[i].columns[k].type = RestrictionLit
        /\ parsed[i].columns[k].type_source = Str("t")

\* the named elements of the sequence of the element of row k
NamedChildren(i, k) ==
    {c \in {SequenceChildren(files[i].doc, parsed[i].els[k])[n] :
                n \in 1..Len(SequenceChildren(files[i].doc, parsed[i].els[k]))} :
         NodeAt(files[i].doc, c).attrib.name # None}

\* C7: a descriptor whose element has named elements in the sequence of its
\* complexType has type "FieldSet", whatever its type reference or
\* restriction; each of those named children has a descriptor of depth + 1
\* whose path is this descriptor's path, ".", and the child's name (the
\* child's name alone under an empty path).
C7_ContainerIsFieldSet ==
    \A i \in Parsed : \A k \in Rows(i) :
        NamedChildren(i, k) # {} =>
            /\ parsed[i].columns[k].type = FieldSet
            /\ \A c \in NamedChildren(i, k) : \E l \in Rows(i) :
                   /\ parsed[i].els[l] = c
                   /\ parsed[i].columns[l].depth = parsed[i].columns[k].depth + 1
                   /\ IsPrefix(parsed[i].columns[k].path, parsed[i].columns[l].path)
                   /\ parsed[i].columns[k].path # EmptyStr =>
                          parsed[i].columns[l].path =
                              parsed[i].columns[k].path \o Str(".")
                                  \o NodeAt(files[i].doc, c).attrib.name[1]

\* a container with a named child that also has a type reference and a
\* simpleType restriction
C7_Witness ==
    \E i \in Parsed : \E k \in Rows(i) :
        /\ NamedChildren(i, k) # {}
        /\ Get(ElementOf(i, k), "type", EmptyStr) = <<"t", ":", "t">>
        /\ NestedRestrictions(i, k) # {}
        /\ parsed[i].columns[k].type = FieldSet

\* the stripped text of the first documentation element below a, "" if none
FirstDocumentationText(root, a) ==
    LET d == FindDeep(root, a, "documentation")
    IN  IF d = None THEN EmptyStr
        ELSE IF NodeAt(root, d[1]).text = None THEN EmptyStr
        ELSE Strip(NodeAt(root, d[1]).text[1])

\* C8: the description of every descriptor is the text of the first
\* documentation element of its element's subtree ("" when there is none or it
\* has no text), and no document fails to parse because of a description.
C8_DescriptionFirstDocumentation ==
    \A i \in 1..Len(parsed) :
        /\ parsed[i].error # "AttributeError"
        /\ \A k \in Rows(i) :
               parsed[i].columns[k].description =
                   FirstDocumentationText(files[i].doc, parsed[i].els[k])

(***************************************************************************)
(* Properties of the batch functions                                       *)
(***************************************************************************)
DescriptorFields ==
    {"name", "path", "type_source", "type", "required", "min_occurrences",
     "max_occurrences", "description", "order", "depth"}

\* the files of the directory whose document fails to parse
Failing == {i \in 1..Len(files) : parse_schema(files[i].doc).raised}

AllFail == files # <<>> /\ Failing = 1..Len(files)

\* the descriptor columns of the rows of the table that came from the file
RowsFrom(table, file_name) ==
    LET From(r) == r.source_file = file_name
        rows == SelectSeq(table, From)
    IN  [k \in 1..Len(rows) |-> [f \in DescriptorFields |-> rows[k][f]]]

ErrorStatuses ==
    {"ValueError: No XML files found",
     "ValueError: No schemas were successfully parsed",
     "raised: No root element found in schema",
     "raised: AttributeError"}

\* C9: when some but not all documents of the directory fail to parse, the
\* batch function ends without an error, and its table holds, for every
\* document that parsed, exactly that document's rows in their order, and no
\* row of another origin.
C9_FailuresIsolated ==
    (pc = "done" /\ Failing # {} /\ ~AllFail) =>
        /\ result.status \notin ErrorStatuses
        /\ \A i \in 1..Len(files) :
               RowsFrom(result.table, files[i].name) =
                   IF i \in Failing THEN <<>> ELSE parse_schema(files[i].doc).df
        /\ \A k \in 1..Len(result.table) : \E i \in 1..Len(files) :
               result.table[k].source_file = files[i].name

JoinInput == Concat(all_dfs)

Enriched ==
    IF aggregator = "parse_all_schemas"
    THEN add_form_metadata(JoinInput, metadata)
    ELSE load_add_form_metadata(JoinInput, metadata, "form_schema_url")

\* the rows of the metadata CSV whose link is the link of the row
MatchesOf(row) ==
    {n \in 1..Len(metadata) : metadata[n].Form_Schema = row.form_link}

FirstOf(ns) == CHOOSE n \in ns : \A m \in ns : n <= m

Occurrences(table, r) == Cardinality({k \in 1..Len(table) : table[k] = r})

JoinDone == pc = "done" /\ result.status \in {"returned", "saved"}

\* C11: the metadata join gives one enriched row per row of its input, in the
\* input's order and with the input's columns untouched; a row whose link is
\* in the metadata carries the fields of the first metadata row of that link,
\* a row whose link is not carries empty metadata fields.  The table of the
\* batch function is that enriched table (sorted, for parse_all_schemas).
C11_JoinKeepsEveryRow ==
    JoinDone =>
        LET input == JoinInput
            enriched == Enriched
        IN  /\ Len(enriched) = Len(input)
            /\ Len(result.table) = Len(input)
            /\ \A k \in 1..Len(input) :
                   /\ \A f \in DOMAIN input[k] : enriched[k][f] = input[k][f]
                   /\ LET ns == MatchesOf(input[k])
                      IN  IF ns = {}
                          THEN /\ enriched[k].form_family = None
                               /\ enriched[k].form_name = None
                               /\ enriched[k].form_omb_number = None
                               /\ enriched[k].form_agency_owner = None
                          ELSE LET m == metadata[FirstOf(ns)]
                               IN  /\ enriched[k].form_family = Some(m.Form_Family)
                                   /\ enriched[k].form_name = Some(m.Form_Name)
                                   /\ enriched[k].form_omb_number = Some(m.OMB_Number)
                                   /\ enriched[k].form_agency_owner = Some(m.Agency_Owner)
            /\ \A k \in 1..Len(enriched) :
                   Occurrences(result.table, enriched[k]) = Occurrences(enriched, enriched[k])
            /\ aggregator = "process_all_files" => result.table = enriched

\* a join of a table with a row whose link has two metadata rows of different
\* form names, and a row whose link has none
C11_Witness ==
    /\ JoinDone
    /\ \E k \in 1..Len(JoinInput) : MatchesOf(JoinInput[k]) = {}
    /\ \E k \in 1..Len(JoinInput) :
           /\ MatchesOf(JoinInput[k]) = {1, 2}
           /\ metadata[1].Form_Name # metadata[2].Form_Name
           /\ Enriched[k].form_name = Some(metadata[1].Form_Name)

(***************************************************************************)
(* Properties of the final sort of parse_all_schemas                       *)
(***************************************************************************)
ParseAllReturned ==
    pc = "done" /\ aggregator = "parse_all_schemas" /\ result.status = "returned"

ChildPath(path, name) ==
    IF path = EmptyStr THEN name ELSE path \o Str(".") \o name

\* some descriptor of the document has the path of row k as its parent path
\* and depth one greater
HasChildRow(i, k) ==
    \E l \in Rows(i) :
        /\ parsed[i].columns[l].depth = parsed[i].columns[k].depth + 1
        /\ parsed[i].columns[l].path =
               ChildPath(parsed[i].columns[k].path, parsed[i].columns[l].name)

\* the type reference of the element of row k resolves to the name "FieldSet"
RefersToFieldSet(i, k) ==
    LET ref == Get(ElementOf(i, k), "type", EmptyStr)
    IN  \/ ref = FieldSet
        \/ Len(Split(ref, ":")) = 2 /\ Split(ref, ":")[2] = FieldSet

\* C13 as stated: every descriptor of type "FieldSet" has a child descriptor.
C13_FieldSetNeverLeaf ==
    \A i \in Parsed : \A k \in Rows(i) :
        parsed[i].columns[k].type = FieldSet => HasChildRow(i, k)

\* C13 amended: a descriptor of type "FieldSet" comes from an element whose
\* sequence has element children, named or not, or from a childless element
\* whose type reference names "FieldSet"; it has a child descriptor when one
\* of the sequence's elements is named, and no descriptor is emitted for a
\* child of it when none is.
C13_FieldSetLeafUnlessNamedChild ==
    \A i \in Parsed : \A k \in Rows(i) :
        parsed[i].columns[k].type = FieldSet =>
            /\ IsContainer(i, k) \/ RefersToFieldSet(i, k)
            /\ NamedChildren(i, k) # {} => HasChildRow(i, k)
            /\ NamedChildren(i, k) = {} =>
                   ~ \E l \in Rows(i) : IsParentRow(i, k, l)

\* a "FieldSet" descriptor without a child descriptor: its sequence holds only
\* unnamed elements, or it is a childless element whose type names "FieldSet"
C13_Witness ==
    \E i \in Parsed : \E k \in Rows(i) :
        /\ parsed[i].columns[k].type = FieldSet
        /\ \/ IsContainer(i, k) /\ NamedChildren(i, k) = {} /\ ~HasChildRow(i, k)
           \/ ~IsContainer(i, k) /\ RefersToFieldSet(i, k) /\ ~HasChildRow(i, k)

====
